---- MODULE Spec2Model ----
(***************************************************************************)
(* Excavation-pit monitoring: the GB50497 layout validator                 *)
(* (GB50497Validator), the sensor store of ExcavationMonitoringSystem and  *)
(* the application handlers that drive both.                               *)
(*                                                                         *)
(* Conventions of the translation                                          *)
(*  - lengths are integers (metres); every comparison the code makes on a  *)
(*    half length or on a square root is made here on the doubled or the   *)
(*    squared quantity, which decides the same way for these values;       *)
(*  - a message is a record [kind, name, n]: kind names the template       *)
(*    literal of the source, name the display name spliced into it ("" if  *)
(*    none) and n the number spliced into it (0 if none);                  *)
(*  - display names are the source's names in an ASCII rendering.          *)
(***************************************************************************)
EXTENDS Integers, Sequences, FiniteSets, TLC

VARIABLES
    monitoringRequirements, \* GB50497Validator.monitoringRequirements
    layoutRequirements,     \* GB50497Validator.layoutRequirements
    form,                   \* the pit parameters of the page (getCurrentConfig)
    config,                 \* ExcavationMonitoringSystem.config
    sensors,                \* ExcavationMonitoringSystem.sensors
    ret,                    \* what the latest handler's core call returned or threw
    memo                    \* history: one remembered validateLayout call (input, outcome)

vars == <<monitoringRequirements, layoutRequirements, form, config, sensors, ret, memo>>

(***************************************************************************)
(* Bounds of the model                                                     *)
(***************************************************************************)
MaxSensors == 2     \* sensors in the list, general specification
MaxLevel == 4       \* safety levels 0..MaxLevel are entered in the form
MaxCount == 8       \* sensors in the list, counting specification
MaxKinds == 2       \* distinct categories in the list, counting specification
MaxDensity == 3     \* sensors in the list, density specification
MaxPerSide == 3     \* sensors at one wall point, wall specification
MaxPerCorner == 1   \* sensors at one corner point, corner specification
MaxDeep == 6        \* deep-horizontal sensors, deep-horizontal specification
MaxSettlement == 8  \* settlement sensors inside the pit, settlement specification
MaxInside == 7      \* sensors inside the pit, range specification
MaxOutside == 3     \* sensors outside the pit, range specification
MaxStore == 3       \* sensors in the list, store specification

----------------------------------------------------------------------------
(***************************************************************************)
(* Static tables of the validator                                          *)
(***************************************************************************)
HD == "horizontal-displacement"
VD == "vertical-displacement"
DH == "deep-horizontal"
SF == "support-force"
AF == "anchor-force"
WL == "water-level"
GS == "ground-settlement"
WIF == "wall-internal-force"
PP == "pore-pressure"
SP == "soil-pressure"

RequirementSet(req, rec, opt) ==
    [required |-> req, recommended |-> rec, optional |-> opt]

RequirementsTable ==
    [t \in {"soil", "rock", "soil-rock"} |->
        CASE t = "soil" ->
               [l \in 1..3 |->
                  CASE l = 1 -> RequirementSet(<<HD, VD, DH, SF, WL, GS>>, <<AF>>, <<WIF, PP, SP>>)
                    [] l = 2 -> RequirementSet(<<HD, VD, DH, SF, WL, GS>>, <<AF>>, <<WIF, PP>>)
                    [] l = 3 -> RequirementSet(<<HD, VD, WL>>, <<DH, SF, GS>>, <<AF>>)]
          [] t = "rock" ->
               [l \in 1..3 |->
                  CASE l = 1 -> RequirementSet(<<HD, VD, AF, GS>>, <<WL>>, <<>>)
                    [] l = 2 -> RequirementSet(<<HD, GS>>, <<VD, AF, WL>>, <<>>)
                    [] l = 3 -> RequirementSet(<<HD>>, <<GS>>, <<VD, AF>>)]
          [] t = "soil-rock" ->
               [l \in 1..3 |->
                  CASE l = 1 -> RequirementSet(<<HD, VD, DH, SF, AF, WL, GS>>, <<>>, <<WIF, PP>>)
                    [] l = 2 -> RequirementSet(<<HD, VD, DH, SF, WL, GS>>, <<AF>>, <<>>)
                    [] l = 3 -> RequirementSet(<<HD, VD, WL>>, <<DH, SF, GS>>, <<AF>>)]]

\* this.layoutRequirements: no method of the validator reads it
LayoutTable ==
    [t \in {HD, VD, DH, SF, GS, WL} |->
        CASE t = HD -> [minPointsPerSide |-> 3, preferredLocations |-> <<"middle", "corner">>,
                        description |-> "wall-top horizontal displacement point"]
          [] t = VD -> [minPointsPerSide |-> 3, preferredLocations |-> <<"middle", "corner">>,
                        description |-> "wall-top vertical displacement point"]
          [] t = DH -> [minPoints |-> 2, maxSpacing |-> 50,
                        description |-> "deep horizontal displacement point"]
          [] t = SF -> [minPointsPerLevel |-> 2,
                        description |-> "support axial force point"]
          [] t = GS -> [monitoringRange |-> 3,
                        description |-> "surrounding ground vertical displacement point"]
          [] t = WL -> [minPoints |-> 2, description |-> "groundwater level point"]]

\* Property names every JavaScript object inherits from Object.prototype: a
\* lookup of one of them on the table yields an object, not undefined.
ObjectPrototypeKeys ==
    {"constructor", "toString", "toLocaleString", "valueOf", "hasOwnProperty",
     "isPrototypeOf", "propertyIsEnumerable", "__proto__",
     "__defineGetter__", "__defineSetter__", "__lookupGetter__", "__lookupSetter__"}

\* the value an object literal yields for an inherited name: the property of
\* Object.prototype (a function, or the prototype itself), which is truthy
InheritedProperty(name) == [inherited |-> name]

\* Variant: a level without an entry falls back to the composition's level 3.
LookupRequirementsDefaulting(reqs, type, safetyLevel) ==
    IF type \in DOMAIN reqs
    THEN IF safetyLevel \in DOMAIN reqs[type]
         THEN [tag |-> "found", req |-> reqs[type][safetyLevel]]
         ELSE [tag |-> "found", req |-> reqs[type][3]]
    ELSE IF type \in ObjectPrototypeKeys
         THEN [tag |-> "undefined"]
         ELSE [tag |-> "TypeError"]

\* this.monitoringRequirements[config.type][config.safetyLevel]
\*   tag "TypeError": the first index gave undefined and the second index threw
\*   tag "undefined": the pair has no entry
\*   tag "found":     req is the RequirementSet
LookupRequirements(reqs, type, safetyLevel) ==
    IF type \in DOMAIN reqs
    THEN IF safetyLevel \in DOMAIN reqs[type]
         THEN [tag |-> "found", req |-> reqs[type][safetyLevel]]
         ELSE [tag |-> "undefined"]
    ELSE IF type \in ObjectPrototypeKeys
         THEN [tag |-> "undefined"]
         ELSE [tag |-> "TypeError"]

getSensorTypeName(type) ==
    CASE type = HD -> "wall-top horizontal displacement"
      [] type = VD -> "wall-top vertical displacement"
      [] type = DH -> "deep horizontal displacement"
      [] type = SF -> "support axial force"
      [] type = AF -> "anchor axial force"
      [] type = WL -> "groundwater level"
      [] type = GS -> "surrounding ground vertical displacement"
      [] type \in ObjectPrototypeKeys -> InheritedProperty(type)
      [] OTHER -> type

getMinimumSensorCount(type) ==
    CASE type \in {HD, VD} -> 8
      [] type \in {DH, SF} -> 4
      [] type \in {AF, WL} -> 2
      [] type = GS -> 6
      [] type \in ObjectPrototypeKeys -> InheritedProperty(type)
      [] OTHER -> 1

----------------------------------------------------------------------------
(***************************************************************************)
(* Helpers                                                                 *)
(***************************************************************************)
Msg(kind, name, n) == [kind |-> kind, name |-> name, n |-> n]

Range(s) == {s[i] : i \in DOMAIN s}

\* the own keys compliance[type] = count leaves on the fresh object literal:
\* an assignment to '__proto__' goes to the prototype setter, which ignores a
\* number, and writes no key
WrittenKeys(types) == Range(types) \ {"__proto__"}

\* count < this.getMinimumSensorCount(type): a comparison of a number with
\* an inherited property (a function or an object) is false
BelowMinimum(count, type) ==
    IF type \in ObjectPrototypeKeys THEN FALSE ELSE count < getMinimumSensorCount(type)

Max(a, b) == IF a >= b THEN a ELSE b

Abs(a) == IF a < 0 THEN -a ELSE a

\* sensorTypes.filter(t => t === type).length
CountType(sens, type) == Cardinality({i \in DOMAIN sens : sens[i].type = type})

\* sensors.filter(s => types.includes(s.type)), order kept
FilterTypes(sens, types) == SelectSeq(sens, LAMBDA s : s.type \in types)

\* the messages a forEach pushes, given the elements that satisfy its test
MissingRequired(hit) ==
    [i \in 1..Len(hit) |-> Msg("missing-required", getSensorTypeName(hit[i]), 0)]
InsufficientCount(hit) ==
    [i \in 1..Len(hit) |-> Msg("insufficient-count", getSensorTypeName(hit[i]),
                               getMinimumSensorCount(hit[i]))]
ConsiderAdding(hit) ==
    [i \in 1..Len(hit) |-> Msg("consider-adding", getSensorTypeName(hit[i]), 0)]

----------------------------------------------------------------------------
(***************************************************************************)
(* Presence and count checks                                               *)
(***************************************************************************)
\* Variant: a count below the minimum is an error, like a missing category.
checkRequiredSensorsStrict(requiredTypes, sens, results) ==
    LET short(t) == BelowMinimum(CountType(sens, t), t)
        errs == MissingRequired(SelectSeq(requiredTypes, short))
    IN  [results |-> [results EXCEPT !.errors = @ \o errs],
         compliance |-> [t \in WrittenKeys(requiredTypes) |-> CountType(sens, t)]]

\* Variant: a count equal to the minimum still draws the warning (<=).
checkRequiredSensorsInclusive(requiredTypes, sens, results) ==
    LET missing(t) == CountType(sens, t) = 0
        short(t) == /\ CountType(sens, t) # 0
                    /\ t \notin ObjectPrototypeKeys
                    /\ CountType(sens, t) <= getMinimumSensorCount(t)
        errs == MissingRequired(SelectSeq(requiredTypes, missing))
        warns == InsufficientCount(SelectSeq(requiredTypes, short))
    IN  [results |-> [results EXCEPT !.errors = @ \o errs, !.warnings = @ \o warns],
         compliance |-> [t \in WrittenKeys(requiredTypes) |-> CountType(sens, t)]]

\* Variant: the loop stops at the first missing category.
checkRequiredSensorsFirstOnly(requiredTypes, sens, results) ==
    LET missing(t) == CountType(sens, t) = 0
        short(t) == /\ CountType(sens, t) # 0
                    /\ BelowMinimum(CountType(sens, t), t)
        hit == SelectSeq(requiredTypes, missing)
        errs == MissingRequired(IF hit = <<>> THEN hit ELSE <<hit[1]>>)
        warns == InsufficientCount(SelectSeq(requiredTypes, short))
    IN  [results |-> [results EXCEPT !.errors = @ \o errs, !.warnings = @ \o warns],
         compliance |-> [t \in WrittenKeys(requiredTypes) |-> CountType(sens, t)]]

\* Each check takes the report built so far and returns it with its messages
\* appended, together with the compliance detail the source returns.
checkRequiredSensors(requiredTypes, sens, results) ==
    LET missing(t) == CountType(sens, t) = 0
        short(t) == /\ CountType(sens, t) # 0
                    /\ BelowMinimum(CountType(sens, t), t)
        \* errors and warnings are separate lists, so the interleaving of the
        \* forEach does not show: each list keeps the order of requiredTypes
        errs == MissingRequired(SelectSeq(requiredTypes, missing))
        warns == InsufficientCount(SelectSeq(requiredTypes, short))
    IN  [results |-> [results EXCEPT !.errors = @ \o errs, !.warnings = @ \o warns],
         compliance |-> [t \in WrittenKeys(requiredTypes) |-> CountType(sens, t)]]

\* Variant: a recommended category below its minimum count is suggested too.
checkRecommendedSensorsCounting(recommendedTypes, sens, results) ==
    LET missing(t) == BelowMinimum(CountType(sens, t), t)
        sugg == ConsiderAdding(SelectSeq(recommendedTypes, missing))
    IN  [results |-> [results EXCEPT !.suggestions = @ \o sugg],
         compliance |-> [t \in WrittenKeys(recommendedTypes) |-> CountType(sens, t)]]

checkRecommendedSensors(recommendedTypes, sens, results) ==
    LET missing(t) == CountType(sens, t) = 0
        sugg == ConsiderAdding(SelectSeq(recommendedTypes, missing))
    IN  [results |-> [results EXCEPT !.suggestions = @ \o sugg],
         compliance |-> [t \in WrittenKeys(recommendedTypes) |-> CountType(sens, t)]]

(***************************************************************************)
(* Monitoring necessity                                                    *)
(***************************************************************************)
\* Variant: the last branch pushes nothing.
checkMonitoringNecessitySilent(cfg, results) ==
    LET depth == cfg.dimensions.depth
    IN  IF cfg.safetyLevel <= 2
        THEN [results EXCEPT !.suggestions = Append(@, Msg("necessity-mandatory", "", 0))]
        ELSE IF depth >= 5
        THEN [results EXCEPT !.suggestions = Append(@, Msg("necessity-should-monitor", "", 0))]
        ELSE results

\* Variant: the depth test is strict (depth > 5).
checkMonitoringNecessityStrictDepth(cfg, results) ==
    LET depth == cfg.dimensions.depth
        m == IF cfg.safetyLevel <= 2 THEN Msg("necessity-mandatory", "", 0)
             ELSE IF depth > 5 THEN Msg("necessity-should-monitor", "", 0)
             ELSE Msg("necessity-discretionary", "", 0)
    IN  [results EXCEPT !.suggestions = Append(@, m)]

\* Variant: the necessity message is put in front of the list (unshift).
checkMonitoringNecessityFirst(cfg, results) ==
    LET depth == cfg.dimensions.depth
        m == IF cfg.safetyLevel <= 2 THEN Msg("necessity-mandatory", "", 0)
             ELSE IF depth >= 5 THEN Msg("necessity-should-monitor", "", 0)
             ELSE Msg("necessity-discretionary", "", 0)
    IN  [results EXCEPT !.suggestions = <<m>> \o @]

checkMonitoringNecessity(cfg, results) ==
    LET depth == cfg.dimensions.depth
        m == IF cfg.safetyLevel <= 2 THEN Msg("necessity-mandatory", "", 0)
             ELSE IF depth >= 5 THEN Msg("necessity-should-monitor", "", 0)
             ELSE Msg("necessity-discretionary", "", 0)
    IN  [results EXCEPT !.suggestions = Append(@, m)]

----------------------------------------------------------------------------
(***************************************************************************)
(* Spatial layout                                                          *)
(***************************************************************************)
\* squared radial distance from the pit centre: distance ** 2
DistSq(s) == s.position.x * s.position.x + s.position.z * s.position.z

\* the largest element of a finite set of naturals, 0 for the empty set:
\* Math.max(...values, 0)
MaxOf(S) == IF S = {} THEN 0 ELSE CHOOSE m \in S : \A k \in S : k <= m

\* the else-if chain of analyzeSensorDistribution and identifyCriticalPositions:
\* Math.abs(x - length/2) < 2 is Abs(2x - length) < 4
SideOf(s, length, width) ==
    LET x == s.position.x
        z == s.position.z
    IN  IF Abs(2 * x - length) < 4 THEN "east"
        ELSE IF Abs(2 * x + length) < 4 THEN "west"
        ELSE IF Abs(2 * z - width) < 4 THEN "north"
        ELSE IF Abs(2 * z + width) < 4 THEN "south"
        ELSE "none"

\* Variant: four independent ifs, a sensor counts for every side it is near.
SideCountIndependent(sens, length, width, name) ==
    LET nearSide(s) ==
            CASE name = "east" -> Abs(2 * s.position.x - length) < 4
              [] name = "west" -> Abs(2 * s.position.x + length) < 4
              [] name = "north" -> Abs(2 * s.position.z - width) < 4
              [] name = "south" -> Abs(2 * s.position.z + width) < 4
              [] OTHER -> FALSE
    IN  Cardinality({i \in DOMAIN sens : nearSide(sens[i])})

\* the number of sensors assigned to a side
SideCount(sens, length, width, name) ==
    Cardinality({i \in DOMAIN sens : SideOf(sens[i], length, width) = name})

analyzeSensorDistribution(sens, length, width) ==
    LET onSide(name) == SideCount(sens, length, width, name)
        isCorner(s) == /\ Abs(2 * Abs(s.position.x) - length) < 6
                       /\ Abs(2 * Abs(s.position.z) - width) < 6
        isMiddle(s) == \/ 4 * Abs(s.position.x) < length
                       \/ 4 * Abs(s.position.z) < width
    IN  [north |-> onSide("north"), south |-> onSide("south"),
         east |-> onSide("east"), west |-> onSide("west"),
         corners |-> Cardinality({i \in DOMAIN sens : isCorner(sens[i])}),
         middle |-> Cardinality({i \in DOMAIN sens : isMiddle(sens[i])})]

\* the four corners, doubled: [length/2, width/2], [-length/2, width/2], ...
Corners(length, width) ==
    <<<<length, width>>, <<-length, width>>, <<-length, -width>>, <<length, -width>>>>

\* Variant: a side is short of middle coverage below 2 sensors.
identifyCriticalPositionsTwo(sens, length, width) ==
    LET sideCount(name) == SideCount(sens, length, width, name)
        near(s, c) == (2 * s.position.x - c[1]) * (2 * s.position.x - c[1])
                      + (2 * s.position.z - c[2]) * (2 * s.position.z - c[2]) < 100
        hasCornerSensor(c) == \E i \in DOMAIN sens : near(sens[i], c)
    IN  [missingMiddle |->
            Cardinality({n \in {"east", "west", "north", "south"} : sideCount(n) < 2}),
         missingCorner |->
            Cardinality({k \in DOMAIN Corners(length, width) :
                            ~hasCornerSensor(Corners(length, width)[k])})]

\* Variant: a sensor at distance 5 exactly covers the corner.
identifyCriticalPositionsInclusive(sens, length, width) ==
    LET sideCount(name) == SideCount(sens, length, width, name)
        near(s, c) == (2 * s.position.x - c[1]) * (2 * s.position.x - c[1])
                      + (2 * s.position.z - c[2]) * (2 * s.position.z - c[2]) <= 100
        hasCornerSensor(c) == \E i \in DOMAIN sens : near(sens[i], c)
    IN  [missingMiddle |->
            Cardinality({n \in {"east", "west", "north", "south"} : sideCount(n) < 3}),
         missingCorner |->
            Cardinality({k \in DOMAIN Corners(length, width) :
                            ~hasCornerSensor(Corners(length, width)[k])})]

identifyCriticalPositions(sens, length, width) ==
    LET sideCount(name) == SideCount(sens, length, width, name)
        \* distance < 5, on doubled coordinates
        near(s, c) == (2 * s.position.x - c[1]) * (2 * s.position.x - c[1])
                      + (2 * s.position.z - c[2]) * (2 * s.position.z - c[2]) < 100
        hasCornerSensor(c) == \E i \in DOMAIN sens : near(sens[i], c)
    IN  [missingMiddle |->
            Cardinality({n \in {"east", "west", "north", "south"} : sideCount(n) < 3}),
         missingCorner |->
            Cardinality({k \in DOMAIN Corners(length, width) :
                            ~hasCornerSensor(Corners(length, width)[k])})]

\* Variant: the boundary is the larger dimension itself.
pitBoundaryFull(length, width) == 2 * Max(length, width)

\* const pitBoundary = Math.max(length, width) / 2, carried doubled
pitBoundary(length, width) == Max(length, width)

\* the bound of the outside filter of checkMonitoringRange,
\* Math.max(length, width) / 2, carried doubled
outsideBoundary(length, width) == Max(length, width)

\* distance > boundary, the boundary carried doubled: a boundary below 0 is
\* exceeded by every distance
Beyond(s, doubled) == doubled < 0 \/ 4 * DistSq(s) > doubled * doubled

\* The source returns max(distance - pitBoundary, 0) over the sensors, with
\* pitBoundary = max(length, width)/2.  The value is carried as a record:
\* beyond tells whether some sensor lies beyond pitBoundary (the range is
\* positive), distSq is the squared radial distance of the farthest such
\* sensor (0 when there is none); the range grows with distSq.
calculateMonitoringRange(sens, length, width) ==
    LET m == pitBoundary(length, width)
        beyond == {j \in DOMAIN sens : Beyond(sens[j], m)}
    IN  [beyond |-> beyond # {},
         distSq |-> MaxOf({DistSq(sens[i]) : i \in beyond})]

\* Variant: a range equal to the required range is warned about too.
RangeBelowInclusive(range, length, width, requiredRange) ==
    LET m == Max(length, width)
        e == range.distSq
    IN  IF ~range.beyond THEN 0 <= requiredRange
        ELSE /\ 2 * requiredRange + m >= 0
             /\ 4 * e <= (2 * requiredRange + m) * (2 * requiredRange + m)

\* actualRange < requiredRange on the carried value: sqrt(e) - m/2 < r, that
\* is 2 sqrt(e) < 2r + m, which no distance satisfies when 2r + m <= 0
RangeBelow(range, length, width, requiredRange) ==
    LET m == pitBoundary(length, width)
        e == range.distSq
    IN  IF ~range.beyond THEN 0 < requiredRange
        ELSE /\ 2 * requiredRange + m > 0
             /\ 4 * e < (2 * requiredRange + m) * (2 * requiredRange + m)

checkWallDisplacementLayout(sens, length, width, results) ==
    LET wallSensors == FilterTypes(sens, {HD, VD})
        criticalPositions == identifyCriticalPositions(wallSensors, length, width)
        w1 == IF Len(wallSensors) < 12
              THEN <<Msg("wall-count-low", "", 0)>> ELSE <<>>
        w2 == IF criticalPositions.missingMiddle > 0
              THEN <<Msg("missing-middle", "", criticalPositions.missingMiddle)>> ELSE <<>>
        w3 == IF criticalPositions.missingCorner > 0
              THEN <<Msg("missing-corner", "", criticalPositions.missingCorner)>> ELSE <<>>
    IN  [results |-> [results EXCEPT !.warnings = @ \o w1 \o w2 \o w3],
         layout |-> [total |-> Len(wallSensors),
                     distribution |-> analyzeSensorDistribution(wallSensors, length, width)]]

\* Variant: an edge of 50 exactly already asks for 6 sensors.
checkDeepHorizontalLayoutInclusive(sens, length, width, results) ==
    LET deepSensors == FilterTypes(sens, {DH})
        maxEdgeLength == Max(length, width)
        recommendedCount == IF maxEdgeLength >= 50 THEN 6 ELSE 4
        w == IF Len(deepSensors) < recommendedCount
             THEN <<Msg("deep-horizontal-count", "", recommendedCount)>> ELSE <<>>
    IN  [results |-> [results EXCEPT !.warnings = @ \o w],
         layout |-> [total |-> Len(deepSensors),
                     distribution |-> analyzeSensorDistribution(deepSensors, length, width)]]

checkDeepHorizontalLayout(sens, length, width, results) ==
    LET deepSensors == FilterTypes(sens, {DH})
        maxEdgeLength == Max(length, width)
        recommendedCount == IF maxEdgeLength > 50 THEN 6 ELSE 4
        w == IF Len(deepSensors) < recommendedCount
             THEN <<Msg("deep-horizontal-count", "", recommendedCount)>> ELSE <<>>
    IN  [results |-> [results EXCEPT !.warnings = @ \o w],
         layout |-> [total |-> Len(deepSensors),
                     distribution |-> analyzeSensorDistribution(deepSensors, length, width)]]

\* Variant: the density threshold is the presence check's minimum of 6.
checkGroundSettlementLayoutMin6(sens, length, width, depth, results) ==
    LET settlementSensors == FilterTypes(sens, {GS})
        requiredRange == depth * 2
        actualRange == calculateMonitoringRange(settlementSensors, length, width)
        w1 == IF RangeBelow(actualRange, length, width, requiredRange)
              THEN <<Msg("settlement-range", "", requiredRange)>> ELSE <<>>
        w2 == IF Len(settlementSensors) < 6
              THEN <<Msg("settlement-count-low", "", 0)>> ELSE <<>>
    IN  [results |-> [results EXCEPT !.warnings = @ \o w1 \o w2],
         layout |-> [total |-> Len(settlementSensors), range |-> actualRange]]

checkGroundSettlementLayout(sens, length, width, depth, results) ==
    LET settlementSensors == FilterTypes(sens, {GS})
        requiredRange == depth * 2
        actualRange == calculateMonitoringRange(settlementSensors, length, width)
        w1 == IF RangeBelow(actualRange, length, width, requiredRange)
              THEN <<Msg("settlement-range", "", requiredRange)>> ELSE <<>>
        w2 == IF Len(settlementSensors) < 8
              THEN <<Msg("settlement-count-low", "", 0)>> ELSE <<>>
    IN  [results |-> [results EXCEPT !.warnings = @ \o w1 \o w2],
         layout |-> [total |-> Len(settlementSensors), range |-> actualRange]]

checkSensorLayout(cfg, sens, results) ==
    LET length == cfg.dimensions.length
        width == cfg.dimensions.width
        depth == cfg.dimensions.depth
        a == checkWallDisplacementLayout(sens, length, width, results)
        b == checkDeepHorizontalLayout(sens, length, width, a.results)
        c == checkGroundSettlementLayout(sens, length, width, depth, b.results)
    IN  [results |-> c.results,
         compliance |-> [wallDisplacement |-> a.layout,
                         deepHorizontal |-> b.layout,
                         groundSettlement |-> c.layout]]

(***************************************************************************)
(* Quantity and range                                                      *)
(***************************************************************************)
\* in tenths: 0.8, 0.6, 0.4, and 0.5 for any other level
calculateRecommendedDensity(cfg) ==
    CASE cfg.safetyLevel = 1 -> 8
      [] cfg.safetyLevel = 2 -> 6
      [] cfg.safetyLevel = 3 -> 4
      [] OTHER -> 5

\* actualDensity >= recommendedDensity * 0.8 in IEEE double arithmetic: the
\* products 0.8 * 0.8 and 0.4 * 0.8 round up (0.6400000000000001 and
\* 0.32000000000000006), so a density of exactly 0.64 or 0.32 is below them;
\* 0.6 * 0.8 and 0.5 * 0.8 are the doubles 0.48 and 0.4.
\* A perimeter of 0 makes the density Infinity (adequate) or, without
\* sensors, NaN (not adequate); a negative one makes it negative or -0.
Adequate(count, perimeter, tenths) ==
    IF perimeter < 0 THEN FALSE
    ELSE IF perimeter = 0 THEN count > 0
    ELSE IF tenths \in {8, 4}
    THEN 100 * count > 8 * tenths * perimeter
    ELSE 100 * count >= 8 * tenths * perimeter

\* Variant: the density is taken over the pit's area.
checkSensorQuantityArea(cfg, sens, results) ==
    LET perimeter == cfg.dimensions.length * cfg.dimensions.width
        recommendedDensity == calculateRecommendedDensity(cfg)
    IN  [results |-> results,
         compliance |-> [total |-> Len(sens),
                         density |-> [num |-> Len(sens), den |-> perimeter],
                         recommended |-> recommendedDensity,
                         adequate |-> Adequate(Len(sens), perimeter, recommendedDensity)]]

\* density is carried as the fraction count/perimeter, recommended in tenths
checkSensorQuantity(cfg, sens, results) ==
    LET perimeter == 2 * (cfg.dimensions.length + cfg.dimensions.width)
        recommendedDensity == calculateRecommendedDensity(cfg)
    IN  [results |-> results,
         compliance |-> [total |-> Len(sens),
                         density |-> [num |-> Len(sens), den |-> perimeter],
                         recommended |-> recommendedDensity,
                         adequate |-> Adequate(Len(sens), perimeter, recommendedDensity)]]

\* Variant: a sensor on the boundary circle counts as outside.
checkMonitoringRangeInclusive(cfg, sens, results) ==
    LET m == Max(cfg.dimensions.length, cfg.dimensions.width)
        outside == Cardinality({i \in DOMAIN sens : m < 0 \/ 4 * DistSq(sens[i]) >= m * m})
        w == IF 10 * outside < 3 * Len(sens)
             THEN <<Msg("peripheral-coverage", "", 0)>> ELSE <<>>
    IN  [results |-> [results EXCEPT !.warnings = @ \o w],
         compliance |-> [total |-> Len(sens),
                         outside |-> outside,
                         maxDistance |-> MaxOf({DistSq(sens[i]) : i \in DOMAIN sens}),
                         recommendedMaxDistance |-> 3 * m]]

\* maxDistance is carried squared, recommendedMaxDistance (max * 1.5) doubled
checkMonitoringRange(cfg, sens, results) ==
    LET m == Max(cfg.dimensions.length, cfg.dimensions.width)
        b == outsideBoundary(cfg.dimensions.length, cfg.dimensions.width)
        outside == Cardinality({i \in DOMAIN sens : Beyond(sens[i], b)})
        w == IF 10 * outside < 3 * Len(sens)
             THEN <<Msg("peripheral-coverage", "", 0)>> ELSE <<>>
    IN  [results |-> [results EXCEPT !.warnings = @ \o w],
         compliance |-> [total |-> Len(sens),
                         outside |-> outside,
                         maxDistance |-> MaxOf({DistSq(sens[i]) : i \in DOMAIN sens}),
                         recommendedMaxDistance |-> 3 * m]]

----------------------------------------------------------------------------
(***************************************************************************)
(* validateLayout                                                          *)
(***************************************************************************)
\* Variant: the summary line is missing, isValid keeps its initial value.
SummarizeStale(results) == results

\* results.isValid = results.errors.length === 0
Summarize(results) == [results EXCEPT !.isValid = (Len(results.errors) = 0)]

NewResults ==
    [isValid |-> TRUE, errors |-> <<>>, warnings |-> <<>>, suggestions |-> <<>>,
     compliance |-> <<>>]

\* The outcome of a call: [outcome |-> "threw", error] when an exception leaves
\* validateLayout, [outcome |-> "returned", report] otherwise.
Returned(report) == [outcome |-> "returned", report |-> report]
Threw(error) == [outcome |-> "threw", error |-> error]

validateLayout(reqs, cfg, sens) ==
    LET requirements == LookupRequirements(reqs, cfg.type, cfg.safetyLevel)
    IN  IF requirements.tag = "TypeError" THEN Threw("TypeError")
        ELSE IF requirements.tag = "undefined"
        THEN Returned([NewResults EXCEPT
                          !.errors = <<Msg("requirement-not-found", cfg.type, cfg.safetyLevel)>>,
                          !.isValid = FALSE])
        ELSE
        LET r1 == checkRequiredSensors(requirements.req.required, sens, NewResults)
            r2 == checkRecommendedSensors(requirements.req.recommended, sens, r1.results)
            r3 == checkSensorLayout(cfg, sens, r2.results)
            r4 == checkSensorQuantity(cfg, sens, r3.results)
            r5 == checkMonitoringRange(cfg, sens, r4.results)
            r6 == checkMonitoringNecessity(cfg, r5.results)
        IN  Returned(Summarize([r6 EXCEPT
                         !.compliance = [required |-> r1.compliance,
                                         recommended |-> r2.compliance,
                                         layout |-> r3.compliance,
                                         quantity |-> r4.compliance,
                                         range |-> r5.compliance]]))

----------------------------------------------------------------------------
(***************************************************************************)
(* The sensor store (ExcavationMonitoringSystem)                           *)
(***************************************************************************)
\* The history variable holds at most one remembered validateLayout call; it
\* is marked `earlier` as soon as any handler has run after it.
Aged(m) == {[e EXCEPT !.earlier = TRUE] : e \in m}

\* this.config = null
NullConfig == [null |-> TRUE]

IsNull(c) == "null" \in DOMAIN c

Position(x, y, z) == [x |-> x, y |-> y, z |-> z]

\* Precondition: a configuration is set.  distance > maxDistance with
\* maxDistance = max(length, width) * 2 is decided on the squares.
isValidSensorPosition(cfg, type, position) ==
    LET maxDistance == Max(cfg.dimensions.length, cfg.dimensions.width) * 2
        distSq == position.x * position.x + position.z * position.z
    IN  IF maxDistance < 0 \/ distSq > maxDistance * maxDistance THEN FALSE
        ELSE IF type \in {HD, VD} THEN Abs(position.y - 1) < 2
        ELSE IF type = GS THEN Abs(position.y) < 1
        ELSE TRUE

\* getSensors(): type, position and id of every stored sensor (the mesh is
\* not part of the model, so the stored sensor and its copy coincide)
getSensors(sens) == [i \in DOMAIN sens |->
                        [type |-> sens[i].type, position |-> sens[i].position,
                         id |-> sens[i].id]]

\* Variant: the renumbering forEach is missing.
RemoveAtKeepIds(sens, index) ==
    [i \in 1..(Len(sens) - 1) |-> IF i <= index THEN sens[i] ELSE sens[i + 1]]

\* this.sensors.splice(index, 1) followed by the renumbering forEach
RemoveAt(sens, index) ==
    LET cut == [i \in 1..(Len(sens) - 1) |-> IF i <= index THEN sens[i] ELSE sens[i + 1]]
    IN  [i \in DOMAIN cut |-> [cut[i] EXCEPT !.id = i - 1]]

placeSensor(type, position) ==
    /\ IF IsNull(config)
       THEN \* this.config.dimensions throws on the null configuration
            /\ ret' = [op |-> "placeSensor", outcome |-> "threw", error |-> "TypeError"]
            /\ UNCHANGED sensors
       ELSE IF ~isValidSensorPosition(config, type, position)
       THEN /\ ret' = [op |-> "placeSensor", outcome |-> "returned", value |-> FALSE]
            /\ UNCHANGED sensors
       ELSE /\ sensors' = Append(sensors, [type |-> type, position |-> position,
                                           id |-> Len(sensors)])
            /\ ret' = [op |-> "placeSensor", outcome |-> "returned", value |-> TRUE]
    /\ memo' = Aged(memo)
    /\ UNCHANGED <<monitoringRequirements, layoutRequirements, form, config>>

\* index is the 0-based index of the source
removeSensor(index) ==
    /\ IF index >= 0 /\ index < Len(sensors)
       THEN sensors' = RemoveAt(sensors, index)
       ELSE UNCHANGED sensors
    /\ ret' = [op |-> "removeSensor", outcome |-> "returned"]
    /\ memo' = Aged(memo)
    /\ UNCHANGED <<monitoringRequirements, layoutRequirements, form, config>>

clearAllSensors ==
    /\ sensors' = <<>>
    /\ ret' = [op |-> "clearAllSensors", outcome |-> "returned"]
    /\ memo' = Aged(memo)
    /\ UNCHANGED <<monitoringRequirements, layoutRequirements, form, config>>

(***************************************************************************)
(* The application handlers                                                *)
(***************************************************************************)
Config(type, safetyLevel, length, width, depth) ==
    [type |-> type, safetyLevel |-> safetyLevel,
     dimensions |-> [length |-> length, width |-> width, depth |-> depth]]

\* generateExcavation: the page's parameters become the system's configuration
generateExcavation ==
    /\ config' = form
    /\ ret' = [op |-> "generateExcavation", outcome |-> "returned"]
    /\ memo' = Aged(memo)
    /\ UNCHANGED <<monitoringRequirements, layoutRequirements, form, sensors>>

\* a change event of one of the five parameter fields, then
\* updateExcavationParameters: updateParameters(getCurrentConfig())
updateExcavationParameters(c) ==
    /\ \/ c = [form EXCEPT !.type = c.type]
       \/ c = [form EXCEPT !.safetyLevel = c.safetyLevel]
       \/ c = [form EXCEPT !.dimensions.depth = c.dimensions.depth]
       \/ c = [form EXCEPT !.dimensions.length = c.dimensions.length]
       \/ c = [form EXCEPT !.dimensions.width = c.dimensions.width]
    /\ form' = c
    /\ config' = c
    /\ ret' = [op |-> "updateParameters", outcome |-> "returned"]
    /\ memo' = Aged(memo)
    /\ UNCHANGED <<monitoringRequirements, layoutRequirements, sensors>>

\* Variant: the horizontal distance is taken after flattening the position
\* (sensor.position.y = 0), the position object being the stored sensor's.
ValidateFlattening ==
    /\ ret' = [op |-> "validateLayout",
               call |-> validateLayout(monitoringRequirements, form, getSensors(sensors))]
    /\ sensors' = [i \in DOMAIN sensors |-> [sensors[i] EXCEPT !.position.y = 0]]
    /\ UNCHANGED <<monitoringRequirements, layoutRequirements, form, config>>

\* validateSensorLayout: validateLayout(getCurrentConfig(), getSensors())
Validate ==
    /\ ret' = [op |-> "validateLayout",
               call |-> validateLayout(monitoringRequirements, form, getSensors(sensors))]
    /\ UNCHANGED <<monitoringRequirements, layoutRequirements, form, config, sensors>>

validateSensorLayout == Validate /\ memo' = Aged(memo)

\* the same handler, the call being the one the history variable remembers
validateAndRemember ==
    /\ Validate
    /\ memo' = {[config |-> form, sensors |-> getSensors(sensors), call |-> ret'.call,
                 earlier |-> FALSE]}

----------------------------------------------------------------------------
(***************************************************************************)
(* Inputs                                                                  *)
(***************************************************************************)
\* pit-type values: the three compositions, a name that is no property at
\* all, and a name that is an inherited property of the table object
PitTypes == {"soil", "rock", "soil-rock", "unknown", "constructor"}
ValidPitTypes == {"soil", "rock", "soil-rock"}
Levels == 0..MaxLevel
Lengths == {30, 60}
Widths == {20}
Depths == {3, 5, 6}
Dimensions == {[length |-> l, width |-> w, depth |-> d] :
                  l \in Lengths, w \in Widths, d \in Depths}
Configs == {[type |-> t, safetyLevel |-> l, dimensions |-> d] :
               t \in PitTypes, l \in Levels, d \in Dimensions}

SensorTypes == {HD, WL, GS}
AllSensorTypes == {HD, VD, DH, SF, AF, WL, GS, WIF, PP, SP}
\* on the east wall top; on the ground outside the pit; far beyond any pit
Positions == {Position(15, 1, 0), Position(0, 0, 40), Position(200, 0, 0)}

(***************************************************************************)
(* The general specification: every handler, short sensor lists            *)
(***************************************************************************)
Init ==
    /\ monitoringRequirements = RequirementsTable
    /\ layoutRequirements = LayoutTable
    /\ form \in Configs
    /\ config = NullConfig
    /\ sensors = <<>>
    /\ ret = [op |-> "new", outcome |-> "returned"]
    /\ memo = {}

Next ==
    \/ \E t \in SensorTypes, p \in Positions :
          Len(sensors) < MaxSensors /\ placeSensor(t, p)
    \/ \E i \in -1..Len(sensors) : removeSensor(i)
    \/ clearAllSensors
    \/ generateExcavation
    \/ \E c \in Configs : updateExcavationParameters(c)
    \/ validateSensorLayout

Spec == Init /\ [][Next]_vars

(***************************************************************************)
(* The counting specification: long lists of few categories, every sensor  *)
(* at one position that is valid for every category, placed in category    *)
(* order                                                                   *)
(***************************************************************************)
CountTypes == <<HD, VD, DH, SF, AF, WL, GS, PP>>
IndexOf(type) == CHOOSE i \in DOMAIN CountTypes : CountTypes[i] = type
CountPosition == Position(15, 0, 0)
CountConfigs == {c \in Configs : /\ c.type \in ValidPitTypes
                                 /\ c.safetyLevel \in 1..3
                                 /\ c.dimensions.length = 30 /\ c.dimensions.depth = 5}

InitCounts ==
    /\ monitoringRequirements = RequirementsTable
    /\ layoutRequirements = LayoutTable
    /\ form \in CountConfigs
    /\ config = form
    /\ sensors = <<>>
    /\ ret = [op |-> "generateExcavation", outcome |-> "returned"]
    /\ memo = {}

PlaceInOrder(t) ==
    /\ Len(sensors) < MaxCount
    /\ sensors # <<>> => IndexOf(sensors[Len(sensors)].type) <= IndexOf(t)
    /\ Cardinality({sensors[i].type : i \in DOMAIN sensors} \cup {t}) <= MaxKinds
    /\ placeSensor(t, CountPosition)

NextCounts ==
    \/ \E t \in Range(CountTypes) : PlaceInOrder(t)
    \/ \E i \in 0..(Len(sensors) - 1) : removeSensor(i)
    \/ clearAllSensors
    \/ \E c \in CountConfigs : updateExcavationParameters(c)
    \/ validateSensorLayout

SpecCounts == InitCounts /\ [][NextCounts]_vars

(***************************************************************************)
(* The scenario specification: a 30 x 20 x 10 soil pit of level 1 whose    *)
(* sensors are placed category by category (8 horizontal-displacement,     *)
(* 8 vertical-displacement, 4 deep-horizontal, 4 support-force,            *)
(* 2 water-level, 6 ground-settlement) on the 4 side midpoints and the     *)
(* 4 corners, each category starting either with the midpoints or with     *)
(* the corners                                                             *)
(***************************************************************************)
ScenarioConfig == Config("soil", 1, 30, 20, 10)
ScenarioConfigs == {[ScenarioConfig EXCEPT !.safetyLevel = l] : l \in {1, 3}}
ScenarioQuota == <<[type |-> HD, n |-> 8], [type |-> VD, n |-> 8],
                   [type |-> DH, n |-> 4], [type |-> SF, n |-> 4],
                   [type |-> WL, n |-> 2], [type |-> GS, n |-> 6]>>
Midpoints == <<Position(15, 0, 0), Position(-15, 0, 0),
               Position(0, 0, 10), Position(0, 0, -10)>>
CornerPoints == <<Position(15, 0, 10), Position(-15, 0, 10),
                  Position(-15, 0, -10), Position(15, 0, -10)>>
ScenarioOrders == {Midpoints \o CornerPoints, CornerPoints \o Midpoints}

InitScenario ==
    /\ monitoringRequirements = RequirementsTable
    /\ layoutRequirements = LayoutTable
    /\ form = ScenarioConfig
    /\ config = form
    /\ sensors = <<>>
    /\ ret = [op |-> "generateExcavation", outcome |-> "returned"]
    /\ memo = {}

\* the next sensor of the first category whose quota is not yet filled, at the
\* next point of the order the category started with
PlaceScenario(order) ==
    \E q \in DOMAIN ScenarioQuota :
        LET t == ScenarioQuota[q].type
            k == CountType(sensors, t)
        IN  /\ \A j \in 1..(q - 1) :
                  CountType(sensors, ScenarioQuota[j].type) = ScenarioQuota[j].n
            /\ k < ScenarioQuota[q].n
            /\ k > 0 => FilterTypes(sensors, {t})[1].position = order[1]
            /\ placeSensor(t, order[k + 1])

NextScenario ==
    \/ \E order \in ScenarioOrders : PlaceScenario(order)
    \/ clearAllSensors
    \/ \E c \in ScenarioConfigs : updateExcavationParameters(c)
    \/ validateSensorLayout

SpecScenario == InitScenario /\ [][NextScenario]_vars

(***************************************************************************)
(* The density specification: small pits, water-level sensors at the pit   *)
(* centre, and a remembered earlier run to compare the current run with    *)
(***************************************************************************)
DensityLengths == {1, 2, 4}
DensityWidths == {1, 2}
DensityConfigs == {Config(t, l, length, width, 5) :
                      t \in {"soil", "rock"}, l \in 1..3,
                      length \in DensityLengths, width \in DensityWidths}
DensityPosition == Position(0, 0, 0)

InitDensity ==
    /\ monitoringRequirements = RequirementsTable
    /\ layoutRequirements = LayoutTable
    /\ form \in DensityConfigs
    /\ config = form
    /\ sensors = <<>>
    /\ ret = [op |-> "generateExcavation", outcome |-> "returned"]
    /\ memo = {}

NextDensity ==
    \/ Len(sensors) < MaxDensity /\ placeSensor(WL, DensityPosition)
    \/ sensors # <<>> /\ removeSensor(Len(sensors) - 1)
    \/ \E c \in DensityConfigs : updateExcavationParameters(c)
    \/ validateSensorLayout
    \/ validateAndRemember

SpecDensity == InitDensity /\ [][NextDensity]_vars

(***************************************************************************)
(* Specifications of the layout checks.  The sensors are clicked item by   *)
(* item: an item is a category at a point, with the number of sensors the  *)
(* specification lets it receive.                                          *)
(***************************************************************************)
Item(type, position, cap) == [type |-> type, position |-> position, cap |-> cap]
ItemCount(items, q) ==
    Cardinality({i \in DOMAIN sensors : /\ sensors[i].type = items[q].type
                                        /\ sensors[i].position = items[q].position})
\* a click that places a sensor of item q, the later items being still empty
PlaceItem(items, q) ==
    /\ \A j \in (q + 1)..Len(items) : ItemCount(items, j) = 0
    /\ ItemCount(items, q) < items[q].cap
    /\ placeSensor(items[q].type, items[q].position)

\* The wall specification: wall sensors on the four side midpoints of the
\* 30 x 20 pit, at its north-east corner, two units inside the east side, and
\* a deep-horizontal sensor on the north side; the length field switches
\* between 30 and 26.
WallItems == <<Item(HD, Position(15, 1, 0), MaxPerSide),
               Item(VD, Position(-15, 1, 0), MaxPerSide),
               Item(HD, Position(0, 1, 10), MaxPerSide),
               Item(VD, Position(0, 1, -10), MaxPerSide),
               Item(HD, Position(15, 1, 10), MaxPerSide),
               Item(HD, Position(13, 1, 0), 1),
               Item(DH, Position(0, 1, 10), 1)>>
WallConfigs == {Config("soil", 1, length, 20, 5) : length \in {30, 26}}

InitWall ==
    /\ monitoringRequirements = RequirementsTable
    /\ layoutRequirements = LayoutTable
    /\ form = Config("soil", 1, 30, 20, 5)
    /\ config = form
    /\ sensors = <<>>
    /\ ret = [op |-> "generateExcavation", outcome |-> "returned"]
    /\ memo = {}

NextWall ==
    \/ \E q \in DOMAIN WallItems : PlaceItem(WallItems, q)
    \/ sensors # <<>> /\ removeSensor(Len(sensors) - 1)
    \/ \E c \in WallConfigs : updateExcavationParameters(c)
    \/ validateSensorLayout

SpecWall == InitWall /\ [][NextWall]_vars

\* The corner specification: sensors on the four corners of the 30 x 20 pit,
\* at distance 5 exactly and at distance below 5 from its north-east corner,
\* and a deep-horizontal sensor on that corner; the width field switches
\* between 20 and 14.
CornerItems == <<Item(HD, Position(15, 1, 10), MaxPerCorner),
                 Item(VD, Position(-15, 1, 10), MaxPerCorner),
                 Item(HD, Position(-15, 1, -10), MaxPerCorner),
                 Item(VD, Position(15, 1, -10), MaxPerCorner),
                 Item(HD, Position(12, 1, 6), MaxPerCorner),
                 Item(VD, Position(12, 1, 7), MaxPerCorner),
                 Item(DH, Position(15, 1, 10), MaxPerCorner)>>
CornerConfigs == {Config("soil", 1, 30, width, 5) : width \in {20, 14}}

InitCorner ==
    /\ monitoringRequirements = RequirementsTable
    /\ layoutRequirements = LayoutTable
    /\ form = Config("soil", 1, 30, 20, 5)
    /\ config = form
    /\ sensors = <<>>
    /\ ret = [op |-> "generateExcavation", outcome |-> "returned"]
    /\ memo = {}

NextCorner ==
    \/ \E q \in DOMAIN CornerItems : PlaceItem(CornerItems, q)
    \/ sensors # <<>> /\ removeSensor(Len(sensors) - 1)
    \/ \E c \in CornerConfigs : updateExcavationParameters(c)
    \/ validateSensorLayout

SpecCorner == InitCorner /\ [][NextCorner]_vars

\* The deep-horizontal specification: deep-horizontal sensors at the pit
\* centre and one wall sensor, on soil and rock pits of level 1 and 3 whose
\* edges lie around 50.
DeepItems == <<Item(DH, Position(0, 0, 0), MaxDeep),
               Item(HD, Position(15, 1, 0), 1)>>
DeepConfigs == {Config(t, l, length, width, 5) :
                   t \in {"soil", "rock"}, l \in {1, 3},
                   length \in {30, 50, 51}, width \in {20, 60}}

InitDeep ==
    /\ monitoringRequirements = RequirementsTable
    /\ layoutRequirements = LayoutTable
    /\ form \in DeepConfigs
    /\ config = form
    /\ sensors = <<>>
    /\ ret = [op |-> "generateExcavation", outcome |-> "returned"]
    /\ memo = {}

NextDeep ==
    \/ \E q \in DOMAIN DeepItems : PlaceItem(DeepItems, q)
    \/ sensors # <<>> /\ removeSensor(Len(sensors) - 1)
    \/ \E c \in DeepConfigs : updateExcavationParameters(c)
    \/ validateSensorLayout

SpecDeep == InitDeep /\ [][NextDeep]_vars

\* The settlement specification: ground-settlement sensors inside the pit
\* outline and at radial distance 24, 25 and 25 (off the axes), and a
\* water-level sensor at distance 40; depth 3 or 5, length 30 or 40.
SettlementItems == <<Item(GS, Position(0, 0, 10), MaxSettlement),
                     Item(GS, Position(0, 0, 24), 1),
                     Item(GS, Position(0, 0, 25), 1),
                     Item(GS, Position(7, 0, 24), 1),
                     Item(WL, Position(0, 0, 40), 1)>>
SettlementConfigs == {Config("soil", 1, length, 20, depth) :
                         length \in {30, 40}, depth \in {3, 5}}

InitSettlement ==
    /\ monitoringRequirements = RequirementsTable
    /\ layoutRequirements = LayoutTable
    /\ form \in SettlementConfigs
    /\ config = form
    /\ sensors = <<>>
    /\ ret = [op |-> "generateExcavation", outcome |-> "returned"]
    /\ memo = {}

NextSettlement ==
    \/ \E q \in DOMAIN SettlementItems : PlaceItem(SettlementItems, q)
    \/ sensors # <<>> /\ removeSensor(Len(sensors) - 1)
    \/ \E c \in SettlementConfigs : updateExcavationParameters(c)
    \/ validateSensorLayout

SpecSettlement == InitSettlement /\ [][NextSettlement]_vars

\* The range specification: water-level sensors at the pit centre, on the
\* boundary circle of the 30 x 20 pit (radial distance 15 exactly, off the
\* axes) and one unit beyond it; the length field switches between 30 and 34.
RangeItems == <<Item(WL, Position(0, 0, 0), MaxInside),
                Item(WL, Position(9, 0, 12), 1),
                Item(WL, Position(0, 0, 16), MaxOutside)>>
RangeConfigs == {Config("soil", 1, length, 20, 5) : length \in {30, 34}}

InitRange ==
    /\ monitoringRequirements = RequirementsTable
    /\ layoutRequirements = LayoutTable
    /\ form \in RangeConfigs
    /\ config = form
    /\ sensors = <<>>
    /\ ret = [op |-> "generateExcavation", outcome |-> "returned"]
    /\ memo = {}

NextRange ==
    \/ \E q \in DOMAIN RangeItems : PlaceItem(RangeItems, q)
    \/ sensors # <<>> /\ removeSensor(Len(sensors) - 1)
    \/ \E c \in RangeConfigs : updateExcavationParameters(c)
    \/ validateSensorLayout

SpecRange == InitRange /\ [][NextRange]_vars

\* The store specification: the three list operations of the sensor store
\* on a set configuration; a wall sensor and a settlement sensor, on the
\* ground, one unit above it (too high for a settlement sensor) and at
\* distance 200 (too far for the 30 x 20 pit, not for the 120 x 20 one);
\* removal indices from -1 to the length of the list.
StoreTypes == {HD, GS}
StorePositions == {Position(15, 0, 0), Position(15, 1, 0), Position(200, 0, 0)}
StoreConfigs == {Config("soil", 1, length, 20, 5) : length \in {30, 120}}
StoreIndexes == -1..Len(sensors)

InitStore ==
    /\ monitoringRequirements = RequirementsTable
    /\ layoutRequirements = LayoutTable
    /\ form \in StoreConfigs
    /\ config = form
    /\ sensors = <<>>
    /\ ret = [op |-> "generateExcavation", outcome |-> "returned"]
    /\ memo = {}

NextStore ==
    \/ \E t \in StoreTypes, p \in StorePositions :
          Len(sensors) < MaxStore /\ placeSensor(t, p)
    \/ \E i \in StoreIndexes : removeSensor(i)
    \/ clearAllSensors
    \/ \E c \in StoreConfigs : updateExcavationParameters(c)

SpecStore == InitStore /\ [][NextStore]_vars

----------------------------------------------------------------------------
(***************************************************************************)
(* Properties                                                              *)
(***************************************************************************)
\* In a state whose ret is a validateLayout outcome, form and sensors are the
\* inputs of that call: the handler leaves them alone and every other handler
\* overwrites ret.
Validated == ret.op = "validateLayout"
ValidatedReturned == Validated /\ ret.call.outcome = "returned"
Report == ret.call.report

\* the 9 defined pairs, and the required list the standard gives each
DefinedPair(cfg) == cfg.type \in ValidPitTypes /\ cfg.safetyLevel \in {1, 2, 3}
RequiredOf(cfg) == RequirementsTable[cfg.type][cfg.safetyLevel].required

NumWhere(msgs, P(_)) == Cardinality({i \in DOMAIN msgs : P(msgs[i])})
NecessityKinds ==
    {"necessity-mandatory", "necessity-should-monitor", "necessity-discretionary"}
NumNecessity(report) == NumWhere(report.suggestions, LAMBDA m : m.kind \in NecessityKinds)
Present(type) == \E i \in DOMAIN sensors : sensors[i].type = type

\* C1: every report validateLayout returns has isValid = (errors is empty), on
\* the short-circuit path and on the full path, whatever the warnings and
\* suggestions.
C1_IsValidIffNoErrors ==
    ValidatedReturned => (Report.isValid <=> (Len(Report.errors) = 0))

\* C1 witness: a full run with warnings and suggestions and no error, valid.
C1_Witness ==
    /\ ValidatedReturned
    /\ Report.isValid
    /\ Report.errors = <<>>
    /\ Report.warnings # <<>>
    /\ Report.suggestions # <<>>
    /\ sensors # <<>>

\* C2: validateLayout never throws: every call returns a report.
C2_NeverThrows == Validated => ret.call.outcome = "returned"

\* C3: Scenario C: composition "unknown", safetyLevel 1 returns a report with
\* exactly one error, isValid = false and no compliance sub-report.
C3_ScenarioC ==
    (Validated /\ form.type = "unknown" /\ form.safetyLevel = 1)
        => /\ ret.call.outcome = "returned"
           /\ Len(Report.errors) = 1
           /\ Report.errors[1].kind = "requirement-not-found"
           /\ ~Report.isValid
           /\ DOMAIN Report.compliance = {}

\* C4: a defined composition with a safety level other than 1, 2, 3 returns a
\* report with exactly one error, isValid = false, no warning, no suggestion
\* and no compliance sub-report: no later check has run.
C4_UnknownLevelShortCircuits ==
    (Validated /\ form.type \in ValidPitTypes /\ form.safetyLevel \notin {1, 2, 3})
        => /\ ret.call.outcome = "returned"
           /\ Len(Report.errors) = 1
           /\ Report.errors[1].kind = "requirement-not-found"
           /\ ~Report.isValid
           /\ Report.warnings = <<>>
           /\ Report.suggestions = <<>>
           /\ DOMAIN Report.compliance = {}

\* C4 witness: such a run, with sensors in the list that a later check would
\* have reported on.
C4_Witness ==
    /\ ValidatedReturned
    /\ form.type \in ValidPitTypes
    /\ form.safetyLevel \notin {1, 2, 3}
    /\ sensors # <<>>

\* C5: in every run the lookup yields a requirement set with a non-empty required list for
\* each of the 9 defined pairs and NotFound (undefined) for every other pair.
C5_LookupTotal ==
    Validated =>
        LET r == LookupRequirements(monitoringRequirements, form.type, form.safetyLevel)
        IN  IF DefinedPair(form)
            THEN r.tag = "found" /\ r.req.required # <<>>
            ELSE r.tag = "undefined"

\* C6: for a defined pair the number of errors is the number of required
\* categories without a sensor in the list, each error a missing-required one.
C6_ErrorsAreMissingRequired ==
    (Validated /\ DefinedPair(form))
        => /\ ret.call.outcome = "returned"
           /\ Len(Report.errors)
                = Cardinality({t \in Range(RequiredOf(form)) : ~Present(t)})
           /\ \A i \in DOMAIN Report.errors : Report.errors[i].kind = "missing-required"
           /\ (\A t \in Range(RequiredOf(form)) : ~Present(t))
                 => Len(Report.errors) = Len(RequiredOf(form))

\* C6 witness: a run with a required category missing, another one present
\* below its minimum and a sensor of a category that is not required.
C6_Witness ==
    /\ ValidatedReturned
    /\ DefinedPair(form)
    /\ \E t \in Range(RequiredOf(form)) : ~Present(t)
    /\ \E t \in Range(RequiredOf(form)) :
          Present(t) /\ CountType(sensors, t) < getMinimumSensorCount(t)
    /\ \E i \in DOMAIN sensors : sensors[i].type \notin Range(RequiredOf(form))

\* the minimums the specification states
StatedMinimum(type) ==
    CASE type = HD -> 8 [] type = VD -> 8
      [] type = DH -> 4 [] type = SF -> 4
      [] type = AF -> 2 [] type = WL -> 2
      [] type = GS -> 6
      [] OTHER -> 1

\* C7: for a required category with c sensors the presence check gives one
\* insufficient-count warning (naming the stated minimum) and no error when
\* 0 < c < minimum, one error and no count warning when c = 0, neither when
\* c >= minimum; the minimums are 8, 8, 4, 4, 2, 2, 6 and 1 for any other.
C7_CountWarning ==
    /\ \A t \in AllSensorTypes : getMinimumSensorCount(t) = StatedMinimum(t)
    /\ (Validated /\ DefinedPair(form))
          => /\ ret.call.outcome = "returned"
             /\ \A t \in Range(RequiredOf(form)) :
                   LET c == CountType(sensors, t)
                       warned == NumWhere(Report.warnings,
                                     LAMBDA m : /\ m.kind = "insufficient-count"
                                                /\ m.name = getSensorTypeName(t))
                       exact == NumWhere(Report.warnings,
                                     LAMBDA m : m = Msg("insufficient-count",
                                                        getSensorTypeName(t),
                                                        StatedMinimum(t)))
                       failed == NumWhere(Report.errors,
                                     LAMBDA m : m.name = getSensorTypeName(t))
                   IN  /\ warned = exact
                       /\ warned = (IF 0 < c /\ c < StatedMinimum(t) THEN 1 ELSE 0)
                       /\ failed = (IF c = 0 THEN 1 ELSE 0)

\* C7 witness: one run showing the three cases: a required category at its
\* minimum exactly, one below its minimum and one absent.
C7_Witness ==
    /\ ValidatedReturned
    /\ DefinedPair(form)
    /\ \E t \in Range(RequiredOf(form)) : CountType(sensors, t) = StatedMinimum(t)
    /\ \E t \in Range(RequiredOf(form)) :
          /\ CountType(sensors, t) = StatedMinimum(t) - 1
          /\ CountType(sensors, t) > 0
    /\ \E t \in Range(RequiredOf(form)) : CountType(sensors, t) = 0

\* C9 (as stated): every returned report holds exactly one necessity
\* suggestion, a requirement-not-found report included.
C9_AlwaysOneNecessity == ValidatedReturned => NumNecessity(Report) = 1

\* C9 (amended): a run on a defined pair holds exactly one necessity
\* suggestion whatever the other checks report; a run that ends with the
\* requirement-not-found error holds none.
C9_OneNecessityWhenResolved ==
    ValidatedReturned
        => NumNecessity(Report) = (IF DefinedPair(form) THEN 1 ELSE 0)

\* C9 witness: a full run in which the other checks report errors, warnings and
\* a recommended-category suggestion.
C9_Witness ==
    /\ ValidatedReturned
    /\ DefinedPair(form)
    /\ Report.errors # <<>>
    /\ Report.warnings # <<>>
    /\ Len(Report.suggestions) >= 2

\* the necessity message the specification selects
StatedNecessity(cfg) ==
    IF cfg.safetyLevel <= 2 THEN "necessity-mandatory"
    ELSE IF cfg.dimensions.depth >= 5 THEN "necessity-should-monitor"
    ELSE "necessity-discretionary"

\* C10: level <= 2 gives the mandatory message at every depth, level 3 gives
\* should-monitor at depth >= 5 (5 included) and discretionary below 5.
C10_NecessitySelection ==
    (ValidatedReturned /\ DefinedPair(form))
        => {Report.suggestions[i].kind : i \in DOMAIN Report.suggestions}
              \cap NecessityKinds = {StatedNecessity(form)}

\* C10 witness: level 3 at the boundary depth 5.
C10_Witness ==
    /\ ValidatedReturned
    /\ DefinedPair(form)
    /\ form.safetyLevel = 3
    /\ form.dimensions.depth = 5
    /\ \E i \in DOMAIN Report.suggestions :
          Report.suggestions[i].kind = "necessity-should-monitor"

\* C11: Scenario A: soil, level 1, 30 x 20 x 10, no sensor: exactly 6 errors,
\* one for each of horizontal-displacement, vertical-displacement,
\* deep-horizontal, support-force, water-level, ground-settlement, and
\* isValid = false.
C11_ScenarioA ==
    (Validated /\ form = ScenarioConfig /\ sensors = <<>>)
        => /\ ret.call.outcome = "returned"
           /\ Len(Report.errors) = 6
           /\ Range(Report.errors)
                 = {Msg("missing-required", getSensorTypeName(t), 0) :
                       t \in {HD, VD, DH, SF, WL, GS}}
           /\ ~Report.isValid

\* C11 witness: the scenario has been run.
C11_Witness ==
    /\ ValidatedReturned
    /\ form = ScenarioConfig
    /\ sensors = <<>>
    /\ Len(Report.errors) = 6

\* the sensor list of Scenario B is complete
ScenarioBPlaced ==
    /\ form = ScenarioConfig
    /\ \A q \in DOMAIN ScenarioQuota :
          CountType(sensors, ScenarioQuota[q].type) = ScenarioQuota[q].n
    /\ Len(sensors) = 32
WarningKinds(report) == {report.warnings[i].kind : i \in DOMAIN report.warnings}

\* C12 (as stated): Scenario B has zero errors, and every warning of its
\* report comes from the wall-displacement corner or middle check.
C12_ScenarioB_OnlyWallWarnings ==
    (Validated /\ ScenarioBPlaced)
        => /\ ret.call.outcome = "returned"
           /\ Report.errors = <<>>
           /\ WarningKinds(Report) \subseteq {"missing-middle", "missing-corner"}

\* C12 (amended): Scenario B has zero errors and isValid = true, and its
\* warnings are exactly three, in this order: the wall-displacement middle
\* warning counting 2 sides (a corner sensor is classified to the east or
\* west side, so the north and south sides hold 2 sensors each, fewer than
\* 3), the ground-settlement range warning naming 20 (no settlement sensor
\* lies 2 x depth beyond the pit boundary) and the ground-settlement density
\* warning (6 sensors, fewer than 8).  No warning comes from the
\* presence/count, wall-count, corner, deep-horizontal or range-coverage
\* check.
C12_ScenarioB ==
    (Validated /\ ScenarioBPlaced)
        => /\ ret.call.outcome = "returned"
           /\ Report.errors = <<>>
           /\ Report.isValid
           /\ Report.warnings = <<Msg("missing-middle", "", 2),
                                  Msg("settlement-range", "", 20),
                                  Msg("settlement-count-low", "", 0)>>

\* C12 witness: Scenario B has been run, the ground-settlement sensors being
\* placed corners first.
C12_Witness ==
    /\ ValidatedReturned
    /\ ScenarioBPlaced
    /\ FilterTypes(sensors, {GS})[1].position = CornerPoints[1]

Perimeter(cfg) == 2 * (cfg.dimensions.length + cfg.dimensions.width)
Quantity(call) == call.report.compliance.quantity
\* density a is smaller than density b, both fractions with positive denominator
DensityLess(a, b) == a.num * b.den < b.num * a.den
\* the current run and the remembered run m have the same sensor count and
\* safety level, and the current run has the larger perimeter
GrownPerimeter(m) ==
    /\ ValidatedReturned
    /\ m.earlier
    /\ m.call.outcome = "returned"
    /\ m.config.safetyLevel = form.safetyLevel
    /\ Len(m.sensors) = Len(sensors)
    /\ Perimeter(form) > Perimeter(m.config)

\* C13 (as stated): with count and level fixed, a larger perimeter gives a
\* strictly smaller density, and adequate never changes from false to true.
C13_DensityStrictlyDecreasing ==
    \A m \in memo :
        GrownPerimeter(m)
            => /\ DensityLess(Quantity(ret.call).density, Quantity(m.call).density)
               /\ Quantity(ret.call).adequate => Quantity(m.call).adequate

\* C13 (amended): with count and level fixed, a larger perimeter gives a
\* strictly smaller density when the list holds at least one sensor and the
\* same density 0 when it is empty; adequate never changes from false to
\* true.
C13_DensityMonotone ==
    \A m \in memo :
        GrownPerimeter(m)
            => /\ Quantity(ret.call).density.den = Perimeter(form)
               /\ Quantity(ret.call).density.num = Len(sensors)
               /\ sensors # <<>>
                    => DensityLess(Quantity(ret.call).density, Quantity(m.call).density)
               /\ sensors = <<>>
                    => /\ Quantity(ret.call).density.num = 0
                       /\ Quantity(m.call).density.num = 0
               /\ Quantity(ret.call).adequate => Quantity(m.call).adequate

\* C13 witness: adequate has changed from true to false as the perimeter grew.
C13_Witness ==
    \E m \in memo :
        /\ GrownPerimeter(m)
        /\ sensors # <<>>
        /\ Quantity(m.call).adequate
        /\ ~Quantity(ret.call).adequate

\* C14: a run of validateLayout leaves the sensor list (length, order, each
\* sensor's category and position), the configuration and the validator's
\* requirement and layout tables as they were.
C14_ValidateOnlyReads ==
    [][ret'.op = "validateLayout"
          => /\ sensors' = sensors
             /\ form' = form
             /\ config' = config
             /\ monitoringRequirements' = monitoringRequirements
             /\ layoutRequirements' = layoutRequirements]_vars

\* C14 witness: a full-path run on a list of two sensors, one of them above
\* the ground plane.
C14_Witness ==
    /\ ValidatedReturned
    /\ DefinedPair(form)
    /\ Len(sensors) = 2
    /\ \E i \in DOMAIN sensors : sensors[i].position.y # 0

RecommendedOf(cfg) == RequirementsTable[cfg.type][cfg.safetyLevel].recommended
OptionalOf(cfg) == RequirementsTable[cfg.type][cfg.safetyLevel].optional
\* the messages follow the declaration order of the list: each message names
\* a category of the list, and a message placed before another one names a
\* category declared before the other one's
InDeclarationOrder(msgs, list) ==
    /\ \A i \in DOMAIN msgs :
          \E a \in DOMAIN list : msgs[i].name = getSensorTypeName(list[a])
    /\ \A i, j \in DOMAIN msgs :
          i < j => \E a, b \in DOMAIN list :
                      /\ a < b
                      /\ msgs[i].name = getSensorTypeName(list[a])
                      /\ msgs[j].name = getSensorTypeName(list[b])

\* C15: the errors follow the declaration order of the required list; the
\* suggestions are those for the absent recommended categories in the
\* declaration order of the recommended list, then the necessity suggestion
\* as the last element.
C15_MessageOrder ==
    (ValidatedReturned /\ DefinedPair(form))
        => LET sugg == Report.suggestions
               front == SubSeq(sugg, 1, Len(sugg) - 1)
           IN  /\ InDeclarationOrder(Report.errors, RequiredOf(form))
               /\ sugg # <<>>
               /\ sugg[Len(sugg)].kind \in NecessityKinds
               /\ \A i \in DOMAIN front : front[i].kind = "consider-adding"
               /\ Len(front)
                    = Cardinality({a \in DOMAIN RecommendedOf(form) :
                                      ~Present(RecommendedOf(form)[a])})
               /\ InDeclarationOrder(front, RecommendedOf(form))

\* C15 witness: a run with three errors and two recommended-category
\* suggestions before the necessity suggestion.
C15_Witness ==
    /\ ValidatedReturned
    /\ DefinedPair(form)
    /\ Len(Report.errors) >= 3
    /\ Len(Report.suggestions) = 3
    /\ sensors # <<>>

\* C16: on a defined pair, a recommended category with no sensor gives exactly
\* one consider-adding suggestion, one with a sensor gives none, and an absent
\* recommended or optional category gives no error and no presence-check
\* warning.
C16_RecommendedSuggestions ==
    (Validated /\ DefinedPair(form))
        => /\ ret.call.outcome = "returned"
           /\ \A t \in Range(RecommendedOf(form)) :
                 NumWhere(Report.suggestions,
                          LAMBDA m : m = Msg("consider-adding", getSensorTypeName(t), 0))
                    = (IF Present(t) THEN 0 ELSE 1)
           /\ \A t \in Range(RecommendedOf(form)) :
                 NumWhere(Report.suggestions,
                          LAMBDA m : /\ m.kind = "consider-adding"
                                     /\ m.name = getSensorTypeName(t))
                    = (IF Present(t) THEN 0 ELSE 1)
           /\ \A t \in Range(RecommendedOf(form)) \cup Range(OptionalOf(form)) :
                 ~Present(t)
                    => /\ NumWhere(Report.errors,
                                   LAMBDA m : m.name = getSensorTypeName(t)) = 0
                       /\ NumWhere(Report.warnings,
                                   LAMBDA m : /\ m.kind \in {"missing-required",
                                                             "insufficient-count"}
                                              /\ m.name = getSensorTypeName(t)) = 0

\* C16 witness: one run with a recommended category present below its minimum
\* count and another recommended category absent.
C16_Witness ==
    /\ ValidatedReturned
    /\ DefinedPair(form)
    /\ \E t \in Range(RecommendedOf(form)) :
          Present(t) /\ CountType(sensors, t) < getMinimumSensorCount(t)
    /\ \E t \in Range(RecommendedOf(form)) : ~Present(t)
    /\ \E t \in Range(OptionalOf(form)) : ~Present(t)

IsWallSensor(s) == s.type \in {HD, VD}
\* within distance < 2 of coordinate +edge/2: |v - edge/2| < 2
NearEdge(v, edge) == Abs(2 * v - edge) < 4
\* the side a sensor is classified to; a sensor near two sides belongs to the
\* first of east (+length/2), west (-length/2), north (+width/2), south
ClassifiedTo(s, cfg) ==
    LET length == cfg.dimensions.length
        width == cfg.dimensions.width
    IN  CASE NearEdge(s.position.x, length) -> "east"
          [] ~NearEdge(s.position.x, length) /\ NearEdge(-s.position.x, length) -> "west"
          [] /\ ~NearEdge(s.position.x, length) /\ ~NearEdge(-s.position.x, length)
             /\ NearEdge(s.position.z, width) -> "north"
          [] /\ ~NearEdge(s.position.x, length) /\ ~NearEdge(-s.position.x, length)
             /\ ~NearEdge(s.position.z, width) /\ NearEdge(-s.position.z, width) -> "south"
          [] OTHER -> "unclassified"
ShortSides(cfg) ==
    {side \in {"east", "west", "north", "south"} :
        Cardinality({i \in DOMAIN sensors : /\ IsWallSensor(sensors[i])
                                            /\ ClassifiedTo(sensors[i], cfg) = side}) < 3}

\* C17: among the horizontal- and vertical-displacement sensors, a sensor is
\* classified to a side when its x is within distance < 2 of +-length/2 or
\* its z within distance < 2 of +-width/2; missingMiddle is the number of the
\* four sides with fewer than 3 classified sensors, and exactly one warning
\* stating that number is emitted iff it is positive.
C17_MissingMiddle ==
    (Validated /\ DefinedPair(form))
        => LET missingMiddle == Cardinality(ShortSides(form))
           IN  /\ ret.call.outcome = "returned"
               /\ NumWhere(Report.warnings, LAMBDA m : m.kind = "missing-middle")
                     = (IF missingMiddle > 0 THEN 1 ELSE 0)
               /\ NumWhere(Report.warnings,
                           LAMBDA m : m = Msg("missing-middle", "", missingMiddle))
                     = (IF missingMiddle > 0 THEN 1 ELSE 0)

\* C17 witness: two sides hold 3 sensors, one of them through a corner
\* sensor; a wall sensor 2 units off the east side and a deep-horizontal
\* sensor on the north side are classified nowhere; the warning states 2.
C17_Witness ==
    /\ ValidatedReturned
    /\ form.dimensions.length = 30
    /\ ItemCount(WallItems, 1) = 2
    /\ ItemCount(WallItems, 5) = 1
    /\ ItemCount(WallItems, 6) = 1
    /\ ItemCount(WallItems, 7) = 1
    /\ ShortSides(form) = {"north", "south"}
    /\ \E i \in DOMAIN Report.warnings : Report.warnings[i] = Msg("missing-middle", "", 2)

\* the corners (+-length/2, +-width/2) with no wall sensor at horizontal
\* distance < 5: (x - cx)^2 + (z - cz)^2 < 25, on doubled coordinates
UncoveredCorners(cfg) ==
    {c \in {<<sx * cfg.dimensions.length, sz * cfg.dimensions.width>> :
               sx \in {-1, 1}, sz \in {-1, 1}} :
        ~\E i \in DOMAIN sensors :
            /\ IsWallSensor(sensors[i])
            /\ (2 * sensors[i].position.x - c[1]) * (2 * sensors[i].position.x - c[1])
               + (2 * sensors[i].position.z - c[2]) * (2 * sensors[i].position.z - c[2])
                 < 4 * 25}

\* C18: missingCorner is the number of the four corners with no horizontal-
\* or vertical-displacement sensor at horizontal distance strictly below 5;
\* exactly one warning stating that number is emitted iff it is positive, and
\* it is 4 when the list holds no wall-displacement sensor.
C18_MissingCorner ==
    (Validated /\ DefinedPair(form))
        => LET missingCorner == Cardinality(UncoveredCorners(form))
           IN  /\ ret.call.outcome = "returned"
               /\ NumWhere(Report.warnings, LAMBDA m : m.kind = "missing-corner")
                     = (IF missingCorner > 0 THEN 1 ELSE 0)
               /\ NumWhere(Report.warnings,
                           LAMBDA m : m = Msg("missing-corner", "", missingCorner))
                     = (IF missingCorner > 0 THEN 1 ELSE 0)
               /\ (\A i \in DOMAIN sensors : ~IsWallSensor(sensors[i]))
                     => \E i \in DOMAIN Report.warnings :
                           Report.warnings[i] = Msg("missing-corner", "", 4)

\* C18 witness: three corners are covered by a sensor on them; the fourth
\* has a wall sensor at distance 5 exactly and a deep-horizontal sensor on
\* it, and is the one missing corner.
C18_Witness ==
    /\ ValidatedReturned
    /\ form.dimensions.width = 20
    /\ ItemCount(CornerItems, 1) = 0
    /\ ItemCount(CornerItems, 5) = 1
    /\ ItemCount(CornerItems, 6) = 0
    /\ ItemCount(CornerItems, 7) = 1
    /\ UncoveredCorners(form) = {<<30, 20>>}
    /\ \E i \in DOMAIN Report.warnings : Report.warnings[i] = Msg("missing-corner", "", 1)

\* the recommended count the specification states
StatedDeepCount(cfg) ==
    IF cfg.dimensions.length > 50 \/ cfg.dimensions.width > 50 THEN 6 ELSE 4

\* C19: the recommended count is 6 when max(length, width) > 50 and 4
\* otherwise (50 gives 4); exactly one warning naming it is emitted iff the
\* number of deep-horizontal sensors is below it, on every defined pair,
\* those where deep-horizontal is neither required nor recommended included.
C19_DeepHorizontalCount ==
    (Validated /\ DefinedPair(form))
        => LET short == CountType(sensors, DH) < StatedDeepCount(form)
           IN  /\ ret.call.outcome = "returned"
               /\ NumWhere(Report.warnings, LAMBDA m : m.kind = "deep-horizontal-count")
                     = (IF short THEN 1 ELSE 0)
               /\ NumWhere(Report.warnings,
                           LAMBDA m : m = Msg("deep-horizontal-count", "",
                                              StatedDeepCount(form)))
                     = (IF short THEN 1 ELSE 0)

\* C19 witness: a rock pit of level 3 (deep-horizontal is in none of its
\* lists) with longer edge 50 exactly and 4 deep-horizontal sensors beside a
\* wall sensor: no warning.
C19_Witness ==
    /\ ValidatedReturned
    /\ form.type = "rock"
    /\ form.safetyLevel = 3
    /\ DH \notin Range(RequiredOf(form)) \cup Range(RecommendedOf(form))
    /\ form.dimensions.length = 50
    /\ form.dimensions.width = 20
    /\ CountType(sensors, DH) = 4
    /\ Len(sensors) = 5
    /\ \A i \in DOMAIN Report.warnings : Report.warnings[i].kind # "deep-horizontal-count"

SettlementSensors == {i \in DOMAIN sensors : sensors[i].type = GS}
\* radial distance minus max(length, width)/2 is positive: 4 d^2 > max^2
BeyondBoundary(s, cfg) ==
    LET m == Max(cfg.dimensions.length, cfg.dimensions.width)
    IN  4 * DistSq(s) > m * m
\* radial distance minus max(length, width)/2 is below 2 * depth:
\* 2 d < 4 depth + max, both sides being positive
WithinTarget(s, cfg) ==
    LET m == Max(cfg.dimensions.length, cfg.dimensions.width)
    IN  4 * DistSq(s) < (4 * cfg.dimensions.depth + m) * (4 * cfg.dimensions.depth + m)
SettlementRange == Report.compliance.layout.groundSettlement.range

\* C20: the actual range is the maximum over the ground-settlement sensors of
\* (radial distance - max(length, width)/2), floored at 0: it is 0 exactly
\* when no settlement sensor lies beyond the boundary and is otherwise that
\* of the farthest settlement sensor.  The range warning naming 2 * depth is
\* emitted iff the actual range is below 2 * depth, and, independently, the
\* density warning iff there are fewer than 8 settlement sensors.
C20_GroundSettlement ==
    (Validated /\ DefinedPair(form))
        => LET beyond == {i \in SettlementSensors : BeyondBoundary(sensors[i], form)}
               below == \A i \in SettlementSensors : WithinTarget(sensors[i], form)
           IN  /\ ret.call.outcome = "returned"
               /\ SettlementRange.distSq >= 0
               /\ SettlementRange.beyond = (beyond # {})
               /\ beyond = {} => SettlementRange.distSq = 0
               /\ beyond # {}
                    => /\ \E i \in beyond : SettlementRange.distSq = DistSq(sensors[i])
                       /\ \A i \in beyond : SettlementRange.distSq >= DistSq(sensors[i])
               /\ NumWhere(Report.warnings, LAMBDA m : m.kind = "settlement-range")
                     = (IF below THEN 1 ELSE 0)
               /\ NumWhere(Report.warnings,
                           LAMBDA m : m = Msg("settlement-range", "",
                                              2 * form.dimensions.depth))
                     = (IF below THEN 1 ELSE 0)
               /\ NumWhere(Report.warnings, LAMBDA m : m.kind = "settlement-count-low")
                     = (IF Cardinality(SettlementSensors) < 8 THEN 1 ELSE 0)

\* C20 witness: 8 settlement sensors, the farthest at radial distance 25
\* exactly off the axes, on a pit with boundary 15 and depth 5 (range 10, not
\* below the target 10), and a water-level sensor farther out: no
\* ground-settlement warning.
C20_Witness ==
    /\ ValidatedReturned
    /\ form.dimensions = [length |-> 30, width |-> 20, depth |-> 5]
    /\ Cardinality(SettlementSensors) = 8
    /\ ItemCount(SettlementItems, 3) = 0
    /\ ItemCount(SettlementItems, 4) = 1
    /\ ItemCount(SettlementItems, 5) = 1
    /\ SettlementRange = [beyond |-> TRUE, distSq |-> 625]
    /\ \A i \in DOMAIN Report.warnings :
          Report.warnings[i].kind \notin {"settlement-range", "settlement-count-low"}

\* the sensors whose radial distance exceeds max(length, width)/2
OutsideSensors(cfg) == {i \in DOMAIN sensors : BeyondBoundary(sensors[i], cfg)}
RangeCompliance == Report.compliance.range

\* C21: a sensor counts as outside iff its radial distance is strictly
\* greater than max(length, width)/2; the peripheral-coverage warning is
\* emitted iff the outside count is below 0.3 x the total count (so never on
\* an empty list); maxDistance is the largest radial distance over all
\* sensors (carried squared) and 0 when there are none.
C21_RangeCoverage ==
    (Validated /\ DefinedPair(form))
        => LET outside == Cardinality(OutsideSensors(form))
               few == 10 * outside < 3 * Len(sensors)
           IN  /\ ret.call.outcome = "returned"
               /\ RangeCompliance.outside = outside
               /\ RangeCompliance.total = Len(sensors)
               /\ NumWhere(Report.warnings, LAMBDA m : m.kind = "peripheral-coverage")
                     = (IF few THEN 1 ELSE 0)
               /\ sensors = <<>>
                    => /\ RangeCompliance.maxDistance = 0
                       /\ \A i \in DOMAIN Report.warnings :
                             Report.warnings[i].kind # "peripheral-coverage"
               /\ sensors # <<>>
                    => /\ \E i \in DOMAIN sensors :
                             RangeCompliance.maxDistance = DistSq(sensors[i])
                       /\ \A i \in DOMAIN sensors :
                             RangeCompliance.maxDistance >= DistSq(sensors[i])

\* C21 witness: 10 sensors, 3 of them outside and one on the boundary circle:
\* 3 is not below 0.3 x 10, no warning; the largest distance is 16.
C21_Witness ==
    /\ ValidatedReturned
    /\ form.dimensions.length = 30
    /\ Len(sensors) = 10
    /\ ItemCount(RangeItems, 2) = 1
    /\ Cardinality(OutsideSensors(form)) = 3
    /\ RangeCompliance.maxDistance = 256
    /\ \A i \in DOMAIN Report.warnings : Report.warnings[i].kind # "peripheral-coverage"

\* C22 (as stated): the boundary of the outside classification and the
\* boundary subtracted in the ground-settlement range are different formulas,
\* one the half of the other, so for a given pit the two values differ.
C22_BoundariesDiffer ==
    (ValidatedReturned /\ DefinedPair(form))
        => LET length == form.dimensions.length
               width == form.dimensions.width
           IN  /\ outsideBoundary(length, width) # pitBoundary(length, width)
               /\ \/ 2 * outsideBoundary(length, width) = pitBoundary(length, width)
                  \/ outsideBoundary(length, width) = 2 * pitBoundary(length, width)

\* C22 (amended): both boundaries are max(length, width)/2 (carried
\* doubled), so for every pit the two values are equal; on a list of
\* ground-settlement sensors only, the range-coverage check counts a sensor
\* as outside exactly when the ground-settlement range is positive.
C22_BoundariesAgree ==
    (ValidatedReturned /\ DefinedPair(form))
        => LET length == form.dimensions.length
               width == form.dimensions.width
           IN  /\ outsideBoundary(length, width) = Max(length, width)
               /\ pitBoundary(length, width) = Max(length, width)
               /\ outsideBoundary(length, width) = pitBoundary(length, width)
               /\ SettlementSensors = DOMAIN sensors
                    => (RangeCompliance.outside > 0) = SettlementRange.beyond

\* C22 witness: the only sensor beyond the boundary is a ground-settlement
\* sensor at radial distance 24, between half the larger dimension (15) and
\* the larger dimension (30): it is outside for both computations.
C22_Witness ==
    /\ ValidatedReturned
    /\ form.dimensions.length = 30
    /\ SettlementSensors = DOMAIN sensors
    /\ sensors # <<>>
    /\ ItemCount(SettlementItems, 2) = 1
    /\ ItemCount(SettlementItems, 3) = 0
    /\ ItemCount(SettlementItems, 4) = 0
    /\ RangeCompliance.outside = 1
    /\ SettlementRange = [beyond |-> TRUE, distSq |-> 576]

WallSensors == {i \in DOMAIN sensors : IsWallSensor(sensors[i])}
NearXEdge(s, cfg) ==
    NearEdge(s.position.x, cfg.dimensions.length) \/ NearEdge(-s.position.x, cfg.dimensions.length)
NearZEdge(s, cfg) ==
    NearEdge(s.position.z, cfg.dimensions.width) \/ NearEdge(-s.position.z, cfg.dimensions.width)
WallDistribution == Report.compliance.layout.wallDisplacement.distribution

\* C23: side classification is exclusive and ordered east, west, north,
\* south: the reported east + west count is the number of wall sensors near
\* an x-edge (corner sensors included), the north + south count the number
\* near a z-edge only, so the four counts sum to at most the number of wall
\* sensors; when every wall sensor near a z-edge is a corner sensor, north
\* and south are 0 and both count as missing middle coverage.
C23_ExclusiveSides ==
    (Validated /\ DefinedPair(form))
        => LET d == WallDistribution
               nearX == {i \in WallSensors : NearXEdge(sensors[i], form)}
               nearZ == {i \in WallSensors : NearZEdge(sensors[i], form)}
           IN  /\ ret.call.outcome = "returned"
               /\ d.east + d.west = Cardinality(nearX)
               /\ d.north + d.south = Cardinality(nearZ \ nearX)
               /\ d.east + d.west + d.north + d.south <= Cardinality(WallSensors)
               /\ \A side \in {"east", "west", "north", "south"} :
                     d[side] = Cardinality({i \in WallSensors :
                                              ClassifiedTo(sensors[i], form) = side})
               /\ nearZ \subseteq nearX
                    => /\ d.north = 0
                       /\ d.south = 0
                       /\ \E i \in DOMAIN Report.warnings :
                             /\ Report.warnings[i].kind = "missing-middle"
                             /\ Report.warnings[i].n >= 2

\* C23 witness: three sensors on the north-east corner and three on the west
\* midpoint, none on the north or south midpoint: east and west hold 3 each,
\* north and south none, and the warning counts 2 sides.
C23_Witness ==
    /\ ValidatedReturned
    /\ form.dimensions.length = 30
    /\ ItemCount(WallItems, 1) = 0
    /\ ItemCount(WallItems, 2) = 3
    /\ ItemCount(WallItems, 3) = 0
    /\ ItemCount(WallItems, 4) = 0
    /\ ItemCount(WallItems, 5) = 3
    /\ WallDistribution.east = 3
    /\ WallDistribution.north = 0
    /\ \E i \in DOMAIN Report.warnings : Report.warnings[i] = Msg("missing-middle", "", 2)

\* every stored sensor's id is its 0-based index in the list
IdsAreIndexes(sens) == \A i \in DOMAIN sens : sens[i].id = i - 1

\* C24: with a configuration set, after every placeSensor, removeSensor and
\* clearAllSensors call every stored sensor's id equals its index (0..n-1, no
\* gap, no duplicate); a placeSensor rejected by isValidSensorPosition
\* returns false and leaves the list unchanged, an accepted one appends
\* exactly one sensor, and a removeSensor with an index outside 0..n-1 leaves
\* the list unchanged.
C24_StoreDiscipline ==
    [][/\ IdsAreIndexes(sensors')
       /\ \A t \in StoreTypes, p \in StorePositions :
             placeSensor(t, p)
                => IF isValidSensorPosition(config, t, p)
                   THEN /\ ret'.value = TRUE
                        /\ Len(sensors') = Len(sensors) + 1
                        /\ SubSeq(sensors', 1, Len(sensors)) = sensors
                        /\ sensors'[Len(sensors')].type = t
                        /\ sensors'[Len(sensors')].position = p
                   ELSE /\ ret'.value = FALSE
                        /\ sensors' = sensors
       /\ \A i \in StoreIndexes :
             removeSensor(i)
                => IF i < 0 \/ i > Len(sensors) - 1
                   THEN sensors' = sensors
                   ELSE /\ Len(sensors') = Len(sensors) - 1
                        /\ \A k \in DOMAIN sensors' :
                              /\ sensors'[k].type = sensors[IF k <= i THEN k ELSE k + 1].type
                              /\ sensors'[k].position
                                    = sensors[IF k <= i THEN k ELSE k + 1].position
       /\ clearAllSensors => sensors' = <<>>]_vars

\* C24 witness: the first of three sensors has been removed, the two left
\* are of different categories and numbered 0 and 1.
C24_Witness ==
    /\ ret.op = "removeSensor"
    /\ Len(sensors) = 2
    /\ sensors[1].type # sensors[2].type
    /\ sensors[1].position # sensors[2].position
    /\ sensors[1].id = 0
    /\ sensors[2].id = 1

====
